---------------------------- MODULE Spec2Model ----------------------------
(***************************************************************************)
(* Model of the cs-jobs job queue (src/src/job_queue.rs).                  *)
(*                                                                         *)
(* The facade (JobQueue) owns the state machine Idle/Running/Stopping, one *)
(* mpsc channel, the dispatcher thread and a tokio runtime.  The store     *)
(* (crate::memory_backend, behind SharedBackend) is described by section   *)
(* 4.4 of the specification; its operations below follow that section.     *)
(***************************************************************************)
EXTENDS Naturals, Integers, Sequences, FiniteSets, TLC

\* ------------------------------------------------------------------ bounds
\* Number of enqueue calls over one run.
MaxEnqueue == 2

\* Last instant of the clock, in seconds.
MaxTime == 2

\* Number of progression commands other producers have sent, and the
\* largest count a command carries.
MaxCommands == 3

MaxSteps == 2

\* ------------------------------------------------------- job descriptors
\* The job descriptors the caller builds, by the routine each carries
\* (lib.rs, enum Routines): SetFlag sends three progression commands and
\* returns bytes, Sleep awaits a timer and returns no bytes, RaiseError
\* returns an error.  A descriptor's index is its id.
JobRoutines == <<"SetFlag", "Sleep", "RaiseError">>

Jobs == DOMAIN JobRoutines

\* The routine carried by job descriptor j.
RoutineOf(j) == JobRoutines[j]

\* Sizes of the worker pool the queue may be built with (0 is rejected).
PoolSizes == {1, 2}

\* What Routines::call returns: Ok(bytes) or Err(Custom).
Outcome(r) ==
    CASE r = "SetFlag"    -> [ok |-> TRUE,  bytes |-> "SET_FLAG_OK"]
      [] r = "RaiseError" -> [ok |-> FALSE, bytes |-> ""]
      [] OTHER            -> [ok |-> TRUE,  bytes |-> ""]

\* Number of messages a routine sends on the channel while it runs.
SendsOf(r) == IF r = "SetFlag" THEN 3 ELSE 0

\* The k-th message (k = 0, 1, 2) the SetFlag routine sends for job id.
SetFlagMsgSwapped(id, k) ==
    CASE k = 0 -> [type |-> "SetSteps", id |-> id, n |-> 2]
      [] k = 1 -> [type |-> "SetStep",  id |-> id, n |-> 2]
      [] OTHER -> [type |-> "SetStep",  id |-> id, n |-> 1]
SetFlagMsgOther(id, k) ==
    CASE k = 0 -> [type |-> "SetSteps", id |-> id + 1, n |-> 2]
      [] k = 1 -> [type |-> "SetStep",  id |-> id + 1, n |-> 1]
      [] OTHER -> [type |-> "SetStep",  id |-> id + 1, n |-> 2]
SetFlagMsg(id, k) ==
    CASE k = 0 -> [type |-> "SetSteps", id |-> id, n |-> 2]
      [] k = 1 -> [type |-> "SetStep",  id |-> id, n |-> 1]
      [] OTHER -> [type |-> "SetStep",  id |-> id, n |-> 2]

\* A routine that is parked at an await (tokio::time::sleep).
Awaits(r) == r = "Sleep"

\* ---------------------------------------------------------------- messages
StopMsg == [type |-> "Stop", id |-> 0, n |-> 0]
JobMsg(j) == [type |-> "Job", id |-> j, n |-> 0]

VARIABLES
    state,       \* JobQueue.state: "Idle", "Running", "Stopping"
    alive,       \* the JobQueue value still exists (join(self) consumes it)
    poolSize,    \* thread_pool_size given to new()
    spawned,     \* number of dispatcher threads start() has spawned
    dispatcher,  \* dispatcher thread: "none", "recv", "busy", "exited"
    channel,     \* every message sent on tx, in send order
    sentIn,      \* facade state at the time channel[i] was sent
    rcvd,        \* number of messages the dispatcher has received
    processed,   \* indices of the messages handed to process_message
    store,       \* backend: job id -> record
    lock,        \* holder of the backend's async mutex: 0 or a task number
    txLock,      \* holder of the sender's mutex: 0 or a task number
    tasks,       \* tasks spawned on the runtime, in spawn order
    invoked,     \* number of times each job's routine was called
    notifs,      \* notifications delivered to the notification handler
    hist,        \* statuses each job's record went through, in order
    ret,         \* outcome of the last call on the public API
    now,         \* the clock, in seconds
    policy,      \* the expire policy each job descriptor was built with
    gone         \* ids whose record the store has let go of

vars == <<state, alive, poolSize, spawned, dispatcher, channel, sentIn, rcvd,
          processed, store, lock, txLock, tasks, invoked, notifs, hist, ret,
          now, policy, gone>>

Ret(op, id, err, val) == [op |-> op, id |-> id, err |-> err, val |-> val]

\* ------------------------- store (memory backend, specification 4.4)
\* The record of a job admitted now: routine is the job's routine, created
\* the admission instant, fetched the instant of the last result fetch (-1
\* while there was none).
NewRecord == [status |-> "Pending", step |-> 0, steps |-> 0, result |-> "",
              routine |-> "", created |-> now, fetched |-> -1]

Put(s, id, rec) == [k \in (DOMAIN s) \cup {id} |-> IF k = id THEN rec ELSE s[k]]

Res(s, err) == [store |-> s, err |-> err]

\* schedule(job): a new record in status Pending holding the job;
\* AlreadyExists if the id is known, an id being unique over the store's
\* lifetime.
SchedulePresent(s, id) ==
    IF id \in DOMAIN s THEN Res(s, "AlreadyExists")
    ELSE Res(Put(s, id, [NewRecord EXCEPT !.routine = RoutineOf(id)]), "Ok")
Schedule(s, id) ==
    IF id \in DOMAIN s \/ id \in gone THEN Res(s, "AlreadyExists")
    ELSE Res(Put(s, id, [NewRecord EXCEPT !.routine = RoutineOf(id)]), "Ok")

\* The status DAG of the store.
LegalTransitionAny(from, to) == TRUE
LegalTransition(from, to) ==
    \/ from = "Pending" /\ to = "Ready"
    \/ from = "Ready"   /\ to = "Running"
    \/ from = "Running" /\ to = "Finished"
    \/ from = "Pending" /\ to = "Finished"

\* set_status(id, s): UnknownJob if absent, IllegalTransition off the DAG.
SetStatus(s, id, to) ==
    IF id \notin DOMAIN s THEN Res(s, "UnknownJob")
    ELSE IF ~LegalTransition(s[id].status, to) THEN Res(s, "IllegalTransition")
    ELSE Res(Put(s, id, [s[id] EXCEPT !.status = to]), "Ok")

Min(a, b) == IF a < b THEN a ELSE b

\* set_steps(id, n): steps := n, and step is lowered to n when above it.
SetSteps(s, id, n) ==
    IF id \notin DOMAIN s THEN Res(s, "UnknownJob")
    ELSE Res(Put(s, id, [s[id] EXCEPT !.steps = n, !.step = Min(s[id].step, n)]), "Ok")

\* set_step(id, n): step := n clamped to [0, steps].
SetStepRaw(s, id, n) ==
    IF id \notin DOMAIN s THEN Res(s, "UnknownJob")
    ELSE Res(Put(s, id, [s[id] EXCEPT !.step = n]), "Ok")
SetStep(s, id, n) ==
    IF id \notin DOMAIN s THEN Res(s, "UnknownJob")
    ELSE Res(Put(s, id, [s[id] EXCEPT !.step = Min(n, s[id].steps)]), "Ok")

\* The fetch instant a successful read leaves: that of the first one.
FirstFetch(f) == IF f = -1 THEN now ELSE f

\* result(id): the record's bytes, the fetch instant being recorded;
\* UnknownJob or NotFinished, which record nothing.
ResultAny(s, id) ==
    IF id \notin DOMAIN s THEN [err |-> "UnknownJob", val |-> "", store |-> s]
    ELSE [err |-> "Ok", val |-> s[id].result,
          store |-> Put(s, id, [s[id] EXCEPT !.fetched = FirstFetch(@)])]
Result(s, id) ==
    IF id \notin DOMAIN s THEN [err |-> "UnknownJob", val |-> "", store |-> s]
    ELSE IF s[id].status # "Finished"
    THEN [err |-> "NotFinished", val |-> "", store |-> s]
    ELSE [err |-> "Ok", val |-> s[id].result,
          store |-> Put(s, id, [s[id] EXCEPT !.fetched = FirstFetch(@)])]

\* status(id): the record's status; UnknownJob.
Status(s, id) ==
    IF id \notin DOMAIN s THEN [err |-> "UnknownJob", val |-> ""]
    ELSE [err |-> "Ok", val |-> s[id].status]

\* routine(id): the routine of the record's job; UnknownJob.
RoutineLost(s, id) ==
    IF id \notin DOMAIN s THEN [err |-> "UnknownJob", val |-> ""]
    ELSE [err |-> "Ok", val |-> IF s[id].status = "Finished" THEN "" ELSE s[id].routine]
Routine(s, id) ==
    IF id \notin DOMAIN s THEN [err |-> "UnknownJob", val |-> ""]
    ELSE [err |-> "Ok", val |-> s[id].routine]

\* s without the records of ids.
Without(s, ids) == [k \in (DOMAIN s) \ ids |-> s[k]]

\* remove(id): the record is deleted; UnknownJob if absent, Busy while the
\* status is Ready or Running.
RemoveAny(s, id) ==
    IF id \notin DOMAIN s THEN Res(s, "UnknownJob")
    ELSE Res(Without(s, {id}), "Ok")
Remove(s, id) ==
    IF id \notin DOMAIN s THEN Res(s, "UnknownJob")
    ELSE IF s[id].status \in {"Ready", "Running"} THEN Res(s, "Busy")
    ELSE Res(Without(s, {id}), "Ok")

\* g extended with the ids that left s for t.
Forget(g, s, t) == g \cup ((DOMAIN s) \ (DOMAIN t))

\* run(id, channel), the part after the routine has returned: on Ok(bytes)
\* the bytes become the record's result, on Err nothing is stored.
RunStore(s, id, out) ==
    IF out.ok /\ id \in DOMAIN s
    THEN Put(s, id, [s[id] EXCEPT !.result = out.bytes])
    ELSE s

\* ------------------------------------------------------------------ ghosts
Notif(err, id) == [kind |-> "Error", val |-> err, id |-> id]

\* The notifications a sequence of store results gives rise to.
ErrorsDropped(results, id) == {}
Errors(results, id) ==
    {Notif(results[i].err, id) : i \in {k \in DOMAIN results : results[k].err # "Ok"}}

\* hist extended with every status that differs between s and t.
Track(h, s, t) ==
    [j \in Jobs |->
        IF j \in DOMAIN t /\ (j \notin DOMAIN s \/ s[j].status # t[j].status)
        THEN Append(h[j], t[j].status)
        ELSE h[j]]

\* ------------------------------------------------------------------- Init
\* Job::new gives a job the policy Never.
Never == [kind |-> "Never", d |-> 0]

\* The queue as new() leaves it.
Constructed ==
    /\ state = "Idle"
    /\ alive = TRUE
    /\ poolSize \in PoolSizes
    /\ spawned = 0
    /\ dispatcher = "none"
    /\ channel = <<>>
    /\ sentIn = <<>>
    /\ rcvd = 0
    /\ processed = {}
    /\ store = [j \in {} |-> NewRecord]
    /\ lock = 0
    /\ txLock = 0
    /\ tasks = <<>>
    /\ invoked = [j \in Jobs |-> 0]
    /\ notifs = {}
    /\ hist = [j \in Jobs |-> <<>>]
    /\ ret = Ret("new", 0, "Ok", "")
    /\ now = 0
    /\ gone = {}

\* Every job is built by Job::new.
Init ==
    /\ Constructed
    /\ policy = [j \in Jobs |-> Never]


\* ----------------------------------------------------------------- facade
TryStartingLax(st) == IF st = "Running" THEN "AlreadyRunning" ELSE "Ok"
TryStarting(st) ==
    CASE st = "Running"  -> "AlreadyRunning"
      [] st = "Stopping" -> "Stopped"
      [] OTHER           -> "Ok"

TryJoiningLax(st) == IF st = "Running" THEN "NotStopping" ELSE "Ok"
TryJoining(st) ==
    CASE st = "Idle"    -> "NotStarted"
      [] st = "Running" -> "NotStopping"
      [] OTHER          -> "Ok"

TryStoppingLax(st) == IF st = "Idle" THEN "NotStarted" ELSE "Ok"
TryStopping(st) ==
    CASE st = "Idle"     -> "NotStarted"
      [] st = "Stopping" -> "Stopped"
      [] OTHER           -> "Ok"

JobsSent == Cardinality({i \in DOMAIN channel : channel[i].type = "Job"})

\* start(): try_starting, spawn the dispatcher thread, state := Running.
\* The thread first takes the receiver's mutex, which a live dispatcher
\* keeps until it exits.
Start ==
    /\ alive
    /\ LET r == TryStarting(state) IN
        /\ ret' = Ret("start", 0, r, "")
        /\ IF r = "Ok"
           THEN /\ spawned' = spawned + 1
                /\ dispatcher' = IF dispatcher \in {"none", "exited"}
                                 THEN "recv" ELSE dispatcher
                /\ state' = "Running"
           ELSE UNCHANGED <<spawned, dispatcher, state>>
    /\ UNCHANGED <<alive, poolSize, channel, sentIn, rcvd, processed, store,
                   lock, txLock, tasks, invoked, notifs, hist>>
    /\ UNCHANGED <<now, policy, gone>>

\* stop(): try_stopping, state := Stopping, send Stop under the sender's mutex.
Stop ==
    /\ alive
    /\ LET r == TryStopping(state) IN
        /\ ret' = Ret("stop", 0, r, "")
        /\ IF r = "Ok"
           THEN /\ txLock = 0
                /\ state' = "Stopping"
                /\ channel' = Append(channel, StopMsg)
                /\ sentIn' = Append(sentIn, state)
           ELSE UNCHANGED <<state, channel, sentIn>>
    /\ UNCHANGED <<alive, poolSize, spawned, dispatcher, rcvd, processed, store,
                   lock, txLock, tasks, invoked, notifs, hist>>
    /\ UNCHANGED <<now, policy, gone>>

\* enqueue(job): send Job(job) under the sender's mutex; the facade state is
\* not consulted.
Enqueue(j) ==
    /\ alive
    /\ txLock = 0
    /\ JobsSent < MaxEnqueue
    /\ channel' = Append(channel, JobMsg(j))
    /\ sentIn' = Append(sentIn, state)
    /\ ret' = Ret("enqueue", j, "Ok", "")
    /\ UNCHANGED <<state, alive, poolSize, spawned, dispatcher, rcvd, processed,
                   store, lock, txLock, tasks, invoked, notifs, hist>>
    /\ UNCHANGED <<now, policy, gone>>

\* A task that is being polled by a worker thread (it is not parked).
MidPoll(t) == tasks[t].st = "running" /\ ~Awaits(RoutineOf(tasks[t].id))

\* The runtime is dropped with its last owner: every task that has not
\* completed is dropped at its await point, with the guards it holds.
DropRuntime(ts) ==
    [t \in DOMAIN ts |->
        IF ts[t].st \in {"spawned", "running"}
        THEN [ts[t] EXCEPT !.st = "cancelled"] ELSE ts[t]]

\* join(self): try_joining, wait for the dispatcher thread, then self is
\* dropped; a failed join drops self too.  The dispatcher holds clones of
\* the runtime and of the sender while it lives, so the runtime goes only
\* when join has waited for the thread.
Join ==
    /\ alive
    /\ alive' = FALSE
    /\ LET r == TryJoining(state) IN
        IF r # "Ok"
        THEN /\ ret' = Ret("join", 0, r, "")
             /\ UNCHANGED <<tasks, lock>>
        ELSE IF spawned = 0
        THEN /\ ret' = Ret("join", 0, "MissingJoinHandle", "")
             /\ UNCHANGED <<tasks, lock>>
        ELSE /\ dispatcher = "exited"
             /\ \A t \in DOMAIN tasks : ~MidPoll(t)
             /\ tasks' = DropRuntime(tasks)
             /\ lock' = 0
             /\ ret' = Ret("join", 0, "Ok", "")
    /\ UNCHANGED <<state, poolSize, spawned, dispatcher, channel, sentIn, rcvd,
                   processed, store, txLock, invoked, notifs, hist>>
    /\ UNCHANGED <<now, policy, gone>>

\* job_status(id): lock the backend, read the status.
JobStatus(j) ==
    /\ alive
    /\ lock = 0
    /\ LET r == Status(store, j) IN ret' = Ret("job_status", j, r.err, r.val)
    /\ UNCHANGED <<state, alive, poolSize, spawned, dispatcher, channel, sentIn,
                   rcvd, processed, store, lock, txLock, tasks, invoked, notifs,
                   hist>>
    /\ UNCHANGED <<now, policy, gone>>

\* job_result(id): lock the backend, take the result bytes.
JobResult(j) ==
    /\ alive
    /\ lock = 0
    /\ LET r == Result(store, j)
       IN /\ ret' = Ret("job_result", j, r.err, r.val)
          /\ store' = r.store
    /\ UNCHANGED <<state, alive, poolSize, spawned, dispatcher, channel, sentIn,
                   rcvd, processed, lock, txLock, tasks, invoked, notifs, hist>>
    /\ UNCHANGED <<now, policy, gone>>

\* job_routine(id): lock the backend, read the routine of the job.
JobRoutine(j) ==
    /\ alive
    /\ lock = 0
    /\ LET r == Routine(store, j) IN ret' = Ret("job_routine", j, r.err, r.val)
    /\ UNCHANGED <<state, alive, poolSize, spawned, dispatcher, channel, sentIn,
                   rcvd, processed, store, lock, txLock, tasks, invoked, notifs,
                   hist, now, policy, gone>>

\* remove_job(id): lock the backend, remove the record.
RemoveJob(j) ==
    /\ alive
    /\ lock = 0
    /\ LET r == Remove(store, j)
       IN /\ ret' = Ret("remove_job", j, r.err, "")
          /\ store' = r.store
          /\ gone' = Forget(gone, store, r.store)
    /\ UNCHANGED <<state, alive, poolSize, spawned, dispatcher, channel, sentIn,
                   rcvd, processed, lock, txLock, tasks, invoked, notifs, hist,
                   now, policy>>

\* ----------------------------------------------------------------- expiry
\* Job::new_with_expire gives a job one of these policies.
ExpirePolicies ==
    {[kind |-> "OnResultFetch", d |-> 0], [kind |-> "OnResultFetch", d |-> 1],
     [kind |-> "Timeout", d |-> 1]}

\* The record of id is due for removal: its Timeout(d) deadline has passed,
\* or its OnResultFetch(d) deadline has passed after a successful fetch.
ExpiredUnfetched(s, id) ==
    \/ /\ policy[id].kind = "Timeout"
       /\ now >= s[id].created + policy[id].d
    \/ /\ policy[id].kind = "OnResultFetch"
       /\ now >= s[id].created + policy[id].d
Expired(s, id) ==
    \/ /\ policy[id].kind = "Timeout"
       /\ now >= s[id].created + policy[id].d
    \/ /\ policy[id].kind = "OnResultFetch"
       /\ s[id].fetched >= 0
       /\ now >= s[id].fetched + policy[id].d

\* The sweeper is a task of the runtime, started with the queue.
SweeperUp == spawned > 0 /\ (alive \/ dispatcher \in {"recv", "busy"})

\* One pass of the sweeper that finds something to remove: under the
\* store lock, every record that is due goes.
Sweep ==
    /\ SweeperUp
    /\ lock = 0
    /\ LET due == {id \in DOMAIN store : Expired(store, id)}
       IN /\ due # {}
          /\ store' = Without(store, due)
          /\ gone' = Forget(gone, store, Without(store, due))
    /\ UNCHANGED <<state, alive, poolSize, spawned, dispatcher, channel, sentIn,
                   rcvd, processed, lock, txLock, tasks, invoked, notifs, hist,
                   ret, now, policy>>

\* A second passes.
Tick ==
    /\ now < MaxTime
    /\ now' = now + 1
    /\ UNCHANGED <<state, alive, poolSize, spawned, dispatcher, channel, sentIn,
                   rcvd, processed, store, lock, txLock, tasks, invoked, notifs,
                   hist, ret, policy, gone>>

\* -------------------------------------------------------------- dispatcher
\* Whether the loop leaves on this message.
IsStopNever(msg) == FALSE
IsStop(msg) == msg = StopMsg

\* while let Ok(msg) = rx.recv(): take the next message; Stop ends the loop.
\* The thread holds a clone of the sender, so the channel never closes on it.
DispatcherRecv ==
    /\ dispatcher = "recv"
    /\ rcvd < Len(channel)
    /\ rcvd' = rcvd + 1
    /\ dispatcher' = IF IsStop(channel[rcvd + 1]) THEN "exited" ELSE "busy"
    /\ UNCHANGED <<state, alive, poolSize, spawned, channel, sentIn, processed,
                   store, lock, txLock, tasks, invoked, notifs, hist, ret>>
    /\ UNCHANGED <<now, policy, gone>>

NewTask(id) == [id |-> id, st |-> "spawned", rpc |-> 0]

\* The critical section of process_job: schedule(job), then
\* set_status(Ready) whatever schedule returned; the results of both calls.
AdmitOnly(s, id) ==
    LET r1 == Schedule(s, id) IN <<r1, Res(r1.store, "Ok")>>
Admit(s, id) ==
    LET r1 == Schedule(s, id) IN <<r1, SetStatus(r1.store, id, "Ready")>>

\* process_job: under the backend lock schedule(job) and set_status(Ready),
\* each error going to the handler; then the task is spawned, whatever
\* the two calls returned.
ProcessJob ==
    /\ dispatcher = "busy"
    /\ channel[rcvd].type = "Job"
    /\ lock = 0
    /\ LET id == channel[rcvd].id
           r1 == Admit(store, id)[1]
           r2 == Admit(store, id)[2]
       IN /\ store' = r2.store
          /\ notifs' = notifs \cup Errors(<<r1, r2>>, id)
          /\ tasks' = Append(tasks, NewTask(id))
          /\ hist' = Track(Track(hist, store, r1.store), r1.store, r2.store)
    /\ processed' = processed \cup {rcvd}
    /\ dispatcher' = "recv"
    /\ UNCHANGED <<state, alive, poolSize, spawned, channel, sentIn, rcvd, lock,
                   txLock, invoked, ret>>
    /\ UNCHANGED <<now, policy, gone>>

\* process_command: under the backend lock set_steps or set_step, an error
\* going to the handler; any other command does nothing.
ProcessCommand ==
    /\ dispatcher = "busy"
    /\ channel[rcvd].type # "Job"
    /\ lock = 0
    /\ LET msg == channel[rcvd]
           r == CASE msg.type = "SetSteps" -> SetSteps(store, msg.id, msg.n)
                  [] msg.type = "SetStep"  -> SetStep(store, msg.id, msg.n)
                  [] OTHER                 -> Res(store, "Ok")
       IN /\ store' = r.store
          /\ notifs' = notifs \cup Errors(<<r>>, msg.id)
    /\ processed' = processed \cup {rcvd}
    /\ dispatcher' = "recv"
    /\ UNCHANGED <<state, alive, poolSize, spawned, channel, sentIn, rcvd, lock,
                   txLock, tasks, invoked, hist, ret>>
    /\ UNCHANGED <<now, policy, gone>>

\* ------------------------------------------------------------------ workers
\* The status the task writes once run has returned; it does not look at
\* what run returned.
FinishedStatus(out) == "Finished"

\* The final write of the task: set_status(Finished), an error going to the
\* handler.
NoFinalStatus(s, id, out) == Res(s, "Ok")
FinalStatus(s, id, out) == SetStatus(s, id, FinishedStatus(out))

Polling == {t \in DOMAIN tasks : MidPoll(t)}

\* The spawned task up to the call of the routine: take the backend lock,
\* set_status(Running) with an error going to the handler, then run().  The
\* routine is called whatever set_status returned; run fails with UnknownJob
\* when the store has no such record, and the task then ends at once.
WorkerStart(t) ==
    /\ tasks[t].st = "spawned"
    /\ lock = 0
    /\ Cardinality(Polling) < poolSize
    /\ LET id == tasks[t].id
           r1 == SetStatus(store, id, "Running")
       IN IF id \in DOMAIN store
          THEN /\ store' = r1.store
               /\ notifs' = notifs \cup Errors(<<r1>>, id)
               /\ invoked' = [invoked EXCEPT ![id] = @ + 1]
               /\ tasks' = [tasks EXCEPT ![t].st = "running"]
               /\ lock' = t
               /\ hist' = Track(hist, store, r1.store)
          ELSE /\ notifs' = notifs \cup Errors(<<r1, Res(store, "UnknownJob"),
                                                 FinalStatus(store, id, [ok |-> FALSE, bytes |-> ""])>>, id)
               /\ tasks' = [tasks EXCEPT ![t].st = "done"]
               /\ UNCHANGED <<store, invoked, lock, hist>>
    /\ UNCHANGED <<state, alive, poolSize, spawned, dispatcher, channel, sentIn,
                   rcvd, processed, txLock, ret>>
    /\ UNCHANGED <<now, policy, gone>>

\* The routine sends its next message; SetFlag keeps the sender's mutex from
\* its first send to its return.
RoutineSend(t) ==
    /\ tasks[t].st = "running"
    /\ tasks[t].rpc < SendsOf(RoutineOf(tasks[t].id))
    /\ IF tasks[t].rpc = 0 THEN txLock = 0 ELSE txLock = t
    /\ channel' = Append(channel, SetFlagMsg(tasks[t].id, tasks[t].rpc))
    /\ sentIn' = Append(sentIn, state)
    /\ tasks' = [tasks EXCEPT ![t].rpc = @ + 1]
    /\ txLock' = t
    /\ UNCHANGED <<state, alive, poolSize, spawned, dispatcher, rcvd, processed,
                   store, lock, invoked, notifs, hist, ret>>
    /\ UNCHANGED <<now, policy, gone>>

\* A mutex once task t has dropped the guard it may hold on it.
GuardKept(holder, t) == holder
GuardDropped(holder, t) == IF holder = t THEN 0 ELSE holder

\* The routine returns: run stores the bytes of an Ok or hands the Err to
\* the handler, then the task writes the final status and lets the lock go.
WorkerFinish(t) ==
    /\ tasks[t].st = "running"
    /\ tasks[t].rpc = SendsOf(RoutineOf(tasks[t].id))
    /\ LET id == tasks[t].id
           out == Outcome(RoutineOf(id))
           s1 == RunStore(store, id, out)
           r2 == FinalStatus(s1, id, out)
       IN /\ store' = r2.store
          /\ notifs' = notifs \cup Errors(<<r2>>, id)
                              \cup (IF out.ok THEN {} ELSE {Notif("Custom", id)})
          /\ hist' = Track(hist, store, r2.store)
    /\ tasks' = [tasks EXCEPT ![t].st = "done"]
    /\ lock' = GuardDropped(lock, t)
    /\ txLock' = GuardDropped(txLock, t)
    /\ UNCHANGED <<state, alive, poolSize, spawned, dispatcher, channel, sentIn,
                   rcvd, processed, invoked, ret>>
    /\ UNCHANGED <<now, policy, gone>>

\* -------------------------------------------------------------------- Next
Next ==
    \/ Start
    \/ Stop
    \/ Join
    \/ \E j \in Jobs : Enqueue(j)
    \/ \E j \in Jobs : JobStatus(j)
    \/ \E j \in Jobs : JobResult(j)
    \/ DispatcherRecv
    \/ ProcessJob
    \/ ProcessCommand
    \/ \E t \in DOMAIN tasks : WorkerStart(t)
    \/ \E t \in DOMAIN tasks : RoutineSend(t)
    \/ \E t \in DOMAIN tasks : WorkerFinish(t)

Spec == Init /\ [][Next]_vars

\* The caller also reads routines and removes records.
NextRemoval ==
    \/ Next
    \/ \E j \in Jobs : JobRoutine(j)
    \/ \E j \in Jobs : RemoveJob(j)

RemovalSpec == Init /\ [][NextRemoval]_vars

\* The progression commands a holder of the message channel may send: for
\* the job that has a record and for one that has none.
Commands ==
    {[type |-> ty, id |-> id, n |-> n] :
        ty \in {"SetSteps", "SetStep"}, id \in {1, 2}, n \in 0..MaxSteps}

\* The queue once job 1 has been enqueued and admitted, its task spawned,
\* with the commands other producers have sent in the meantime.
InitCommands ==
    /\ state = "Running"
    /\ alive = TRUE
    /\ poolSize \in PoolSizes
    /\ spawned = 1
    /\ dispatcher = "recv"
    /\ \E cmds \in UNION {[1..n -> Commands] : n \in 0..MaxCommands} :
          /\ channel = <<JobMsg(1)>> \o cmds
          /\ sentIn = [i \in 1..(Len(cmds) + 1) |-> "Running"]
    /\ rcvd = 1
    /\ processed = {1}
    /\ now = 0
    /\ policy = [j \in Jobs |-> Never]
    /\ gone = {}
    /\ store = SetStatus(Schedule([j \in {} |-> NewRecord], 1).store, 1, "Ready").store
    /\ lock = 0
    /\ txLock = 0
    /\ tasks = <<NewTask(1)>>
    /\ invoked = [j \in Jobs |-> 0]
    /\ notifs = {}
    /\ hist = [j \in Jobs |-> IF j = 1 THEN <<"Pending", "Ready">> ELSE <<>>]
    /\ ret = Ret("enqueue", 1, "Ok", "")

\* The dispatcher works through the commands while the task of job 1 runs.
NextCommands ==
    \/ DispatcherRecv
    \/ ProcessCommand
    \/ \E t \in DOMAIN tasks : WorkerStart(t)
    \/ \E t \in DOMAIN tasks : RoutineSend(t)
    \/ \E t \in DOMAIN tasks : WorkerFinish(t)

CommandSpec == InitCommands /\ [][NextCommands]_vars

\* Every job is built by Job::new_with_expire, with one policy.
InitExpire ==
    /\ Constructed
    /\ poolSize = 1
    /\ \E p \in ExpirePolicies : policy = [j \in Jobs |-> p]

\* Time passes and the sweeper runs.
NextExpire ==
    \/ Start
    \/ \E j \in Jobs : Enqueue(j)
    \/ \E j \in Jobs : JobResult(j)
    \/ \E j \in Jobs : RemoveJob(j)
    \/ DispatcherRecv
    \/ ProcessJob
    \/ ProcessCommand
    \/ \E t \in DOMAIN tasks : WorkerStart(t)
    \/ \E t \in DOMAIN tasks : RoutineSend(t)
    \/ \E t \in DOMAIN tasks : WorkerFinish(t)
    \/ Sweep
    \/ Tick

ExpireSpec == InitExpire /\ [][NextExpire]_vars

\* The dispatcher is an OS thread and the workers are threads of the
\* runtime: each of their steps is taken once it stays possible.
Fairness ==
    /\ WF_vars(DispatcherRecv)
    /\ WF_vars(ProcessJob)
    /\ WF_vars(ProcessCommand)
    /\ WF_vars(\E t \in DOMAIN tasks : WorkerStart(t))
    /\ WF_vars(\E t \in DOMAIN tasks : RoutineSend(t))
    /\ WF_vars(\E t \in DOMAIN tasks : WorkerFinish(t))

FairSpec == Spec /\ Fairness


\* ================================================================== claims
IsPrefix(a, b) == Len(a) <= Len(b) /\ \A i \in 1..Len(a) : a[i] = b[i]

StatusOrder == <<"Pending", "Ready", "Running", "Finished">>

\* C1: start() succeeds only in Idle, where it moves the facade to Running
\* with a dispatcher thread alive; in Running it fails with AlreadyRunning,
\* in Stopping with Stopped, and a failed start changes neither the state
\* nor the dispatcher and spawns no thread.
C1_StartContract ==
    [][Start =>
        /\ state = "Idle" =>
              /\ ret'.err = "Ok"
              /\ state' = "Running"
              /\ dispatcher' = "recv"
              /\ spawned' = 1
        /\ state = "Running" =>
              /\ ret'.err = "AlreadyRunning"
              /\ UNCHANGED <<state, dispatcher, spawned>>
        /\ state = "Stopping" =>
              /\ ret'.err = "Stopped"
              /\ UNCHANGED <<state, dispatcher, spawned>>]_vars

\* A start refused after a stop, the one dispatcher thread being the first.
C1_Witness ==
    /\ ret.op = "start"
    /\ ret.err = "Stopped"
    /\ state = "Stopping"
    /\ spawned = 1

\* C2: stop() in Running sets the state to Stopping and appends exactly one
\* Stop to the channel without waiting for the dispatcher; in Idle it fails
\* with NotStarted, in Stopping with Stopped, and a failed stop changes
\* neither the state nor the channel.
C2_StopContract ==
    [][Stop =>
        /\ state = "Running" =>
              /\ ret'.err = "Ok"
              /\ state' = "Stopping"
              /\ channel' = Append(channel, StopMsg)
              /\ UNCHANGED <<dispatcher, rcvd>>
        /\ state = "Idle" =>
              /\ ret'.err = "NotStarted"
              /\ UNCHANGED <<state, channel>>
        /\ state = "Stopping" =>
              /\ ret'.err = "Stopped"
              /\ UNCHANGED <<state, channel>>]_vars

\* A second stop was refused while the Stop of the first is still unread.
C2_Witness ==
    /\ ret.op = "stop"
    /\ ret.err = "Stopped"
    /\ state = "Stopping"
    /\ dispatcher \in {"recv", "busy"}
    /\ Cardinality({i \in DOMAIN channel : channel[i] = StopMsg}) = 1
    /\ rcvd < Len(channel)

\* C3: join() is allowed only in Stopping: in Idle it fails with NotStarted,
\* in Running with NotStopping, and in Stopping it returns (Ok) only once the
\* dispatcher thread has exited.  join consumes the queue, so the state it
\* was called in and what it returned stay as they were.
C3_JoinContract ==
    ~alive =>
        /\ ret.op = "join"
        /\ state = "Idle" => ret.err = "NotStarted"
        /\ state = "Running" => ret.err = "NotStopping"
        /\ state = "Stopping" => ret.err = "Ok" /\ dispatcher = "exited"

\* A join that returned Ok after the dispatcher had work to do.
C3_Witness ==
    /\ ~alive
    /\ state = "Stopping"
    /\ ret.err = "Ok"
    /\ dispatcher = "exited"
    /\ processed # {}

\* C4: enqueue is permitted only while the facade is Running: no Job message
\* is put on the channel in Idle or in Stopping.
C4_EnqueueOnlyRunning ==
    \A i \in DOMAIN channel : channel[i].type = "Job" => sentIn[i] = "Running"

\* C5: the statuses a job's record takes are a prefix of Pending, Ready,
\* Running, Finished.
C5_StatusPrefix == \A j \in Jobs : IsPrefix(hist[j], StatusOrder)

\* A record went through the four statuses although its id was sent twice
\* and the second admission was refused.
C5_Witness ==
    \E j \in Jobs :
        /\ hist[j] = StatusOrder
        /\ Notif("AlreadyExists", j) \in notifs
        /\ Notif("IllegalTransition", j) \in notifs

\* C6: a Job message whose id is already in the store is rejected: the
\* routine is not invoked again for that id.
C6_DuplicateRejected == \A j \in Jobs : invoked[j] <= 1

Stops == {i \in DOMAIN channel : channel[i] = StopMsg}

\* C7: nothing at or after the Stop marker is processed, and the dispatcher
\* exits on the marker, having processed every message before it.
C7_StopMarker ==
    /\ \A i \in processed : \A k \in Stops : i < k
    /\ Len(tasks) = Cardinality({i \in processed : channel[i].type = "Job"})
    /\ dispatcher = "exited" =>
          \E k \in Stops : rcvd = k /\ processed = 1..(k - 1)

\* The dispatcher has exited on the marker with messages before it and
\* messages after it.
C7_Witness ==
    /\ dispatcher = "exited"
    /\ processed # {}
    /\ rcvd < Len(channel)

\* Nothing is left for the dispatcher or the workers to do.
Quiescent ==
    /\ dispatcher # "busy"
    /\ dispatcher = "recv" => rcvd = Len(channel)
    /\ \A t \in DOMAIN tasks : tasks[t].st \in {"done", "cancelled"}

\* Jobs sent once, while the facade was Running.
SentOnceRunning ==
    {j \in Jobs :
        /\ Cardinality({i \in DOMAIN channel : channel[i] = JobMsg(j)}) = 1
        /\ \A i \in DOMAIN channel : channel[i] = JobMsg(j) => sentIn[i] = "Running"}

\* C8: every job with an id of its own that was enqueued while Running ends
\* Finished with its routine invoked exactly once: when nothing is left to
\* do, that is the case.
C8_AllFinish ==
    Quiescent =>
        \A j \in SentOnceRunning :
            /\ j \in DOMAIN store
            /\ store[j].status = "Finished"
            /\ invoked[j] = 1

\* Tasks whose routine has returned.
Done == {t \in DOMAIN tasks : tasks[t].st = "done"}

\* C9: once a routine has returned Ok(b), the record is Finished with result
\* b, and job_result returns b.
C9_SuccessResult ==
    /\ \A t \in Done :
        LET id == tasks[t].id
            out == Outcome(RoutineOf(id))
        IN (out.ok /\ id \in DOMAIN store) =>
              /\ store[id].status = "Finished"
              /\ store[id].result = out.bytes
              /\ Result(store, id).err = "Ok"
              /\ Result(store, id).val = out.bytes
    /\ (ret.op = "job_result" /\ ret.err = "Ok") =>
          ret.val = Outcome(RoutineOf(ret.id)).bytes

\* job_result has returned the bytes of a SetFlag routine.
C9_Witness ==
    /\ ret.op = "job_result"
    /\ ret.err = "Ok"
    /\ ret.val = "SET_FLAG_OK"
    /\ \E t \in Done : tasks[t].id = ret.id

\* The status the task writes for a routine that returned Ok.
FinishedSuccess == FinishedStatus(Outcome("SetFlag"))

\* C10: once a routine has returned an error, the record is Finished(Error)
\* and not Finished(Success), the handler has got the error, and the record
\* holds no result bytes.
C10_ErrorOutcome ==
    \A t \in Done :
        LET id == tasks[t].id
            out == Outcome(RoutineOf(id))
        IN (~out.ok /\ id \in DOMAIN store) =>
              /\ store[id].status # FinishedSuccess
              /\ Notif("Custom", id) \in notifs
              /\ store[id].result = ""

\* Last status the record of job j went through.
LastStatus(j) == hist[j][Len(hist[j])]

\* C11: remove_job(id) fails with Busy and leaves the record while the status
\* is Ready or Running, fails with UnknownJob when there is no record, and
\* succeeds on a Pending or Finished record, after which a second remove_job
\* and any later job_status on that id fail with UnknownJob.
C11_RemoveContract ==
    [][/\ \A j \in Jobs : RemoveJob(j) =>
            /\ j \notin DOMAIN store =>
                  /\ ret'.err = "UnknownJob"
                  /\ store' = store
            /\ (j \in DOMAIN store /\ store[j].status \in {"Ready", "Running"}) =>
                  /\ ret'.err = "Busy"
                  /\ store' = store
            /\ (j \in DOMAIN store /\ store[j].status \in {"Pending", "Finished"}) =>
                  /\ ret'.err = "Ok"
                  /\ j \notin DOMAIN store'
                  /\ j \in gone'
       /\ \A j \in gone' :
            /\ Remove(store', j).err = "UnknownJob"
            /\ Status(store', j).err = "UnknownJob"]_vars

\* A Finished record was removed, and a second remove_job on it has failed.
C11_Witness ==
    /\ ret.op = "remove_job"
    /\ ret.err = "UnknownJob"
    /\ ret.id \in gone
    /\ LastStatus(ret.id) = "Finished"

\* C12: in every reachable state every record has 0 <= step <= steps,
\* whatever the order in which the SetStep and SetSteps commands of the
\* routine and of other producers are processed.
C12_ProgressionBounds ==
    \A j \in DOMAIN store :
        /\ 0 <= store[j].step
        /\ store[j].step <= store[j].steps

\* The command just processed is a SetStep above the record's step count,
\* and the record's step stands at that count.
C12_Witness ==
    /\ dispatcher = "recv"
    /\ rcvd \in processed
    /\ channel[rcvd].type = "SetStep"
    /\ channel[rcvd].id \in DOMAIN store
    /\ channel[rcvd].n > store[channel[rcvd].id].steps
    /\ store[channel[rcvd].id].steps > 0
    /\ store[channel[rcvd].id].step = store[channel[rcvd].id].steps

\* C13: stop does not cancel the routines in flight: once join has returned
\* Ok, every routine that had started has run to completion, so that no
\* record is left in status Running.
C13_JoinAfterRoutines ==
    (ret.op = "join" /\ ret.err = "Ok") =>
        \A j \in DOMAIN store : store[j].status # "Running"

\* Tasks whose routine is parked at an await.
Suspended == {t \in DOMAIN tasks : tasks[t].st = "running" /\ ~MidPoll(t)}

\* C14: a routine never holds the store lock while it is awaiting, so that
\* job_status on its job completes at once and reports Running.
C14_StatusWhileSuspended ==
    \A t \in Suspended :
        /\ lock # t
        /\ alive => ENABLED JobStatus(tasks[t].id)

\* C15: a job whose routine is suspended does not hold up later jobs: the
\* dispatcher that has received a later Job message admits it while the
\* first routine is still suspended.
C15_LaterJobAdmitted ==
    (/\ Suspended # {}
     /\ dispatcher = "busy"
     /\ channel[rcvd].type = "Job") => ENABLED ProcessJob

\* Every query on the id fails with UnknownJob in store s.
NoRecord(s, id) ==
    /\ Status(s, id).err = "UnknownJob"
    /\ Result(s, id).err = "UnknownJob"
    /\ Routine(s, id).err = "UnknownJob"
    /\ Remove(s, id).err = "UnknownJob"

C17_TimeoutExpiry ==
    \A t \in Suspended :
        (/\ policy[tasks[t].id].kind = "Timeout"
         /\ tasks[t].id \in DOMAIN store
         /\ Expired(store, tasks[t].id)
         /\ SweeperUp) => ENABLED Sweep

\* C18: job_result(id) fails with UnknownJob when there is no record and
\* with NotFinished while the status is Pending, Ready or Running; a failed
\* job_result leaves the store as it was: no fetch instant, no removal due.
C18_ResultErrors ==
    [][\A j \in Jobs : JobResult(j) =>
          /\ j \notin DOMAIN store => ret'.err = "UnknownJob"
          /\ (j \in DOMAIN store
                /\ store[j].status \in {"Pending", "Ready", "Running"}) =>
                ret'.err = "NotFinished"
          /\ ret'.err # "Ok" =>
                /\ store' = store
                /\ \A k \in DOMAIN store' :
                      /\ store'[k].fetched = store[k].fetched
                      /\ Expired(store', k) <=> Expired(store, k)]_vars

\* job_result has failed with NotFinished on the Ready record of a job with
\* policy OnResultFetch, which holds no fetch instant.
C18_Witness ==
    /\ ret.op = "job_result"
    /\ ret.err = "NotFinished"
    /\ policy[ret.id].kind = "OnResultFetch"
    /\ ret.id \in DOMAIN store
    /\ store[ret.id].status = "Ready"
    /\ store[ret.id].fetched = -1

StatusNotif(id, s) == [kind |-> "Status", val |-> s, id |-> id]

\* C20: every status transition that completes in the store (to Ready,
\* Running or Finished) has its Status(id, s) notification delivered to the
\* handler.
C20_StatusNotified ==
    \A j \in Jobs : \A i \in 2..Len(hist[j]) :
        StatusNotif(j, hist[j][i]) \in notifs

\* C21: an error of the store while the dispatcher handles a Job, SetStep or
\* SetSteps message (AlreadyExists, UnknownJob, IllegalTransition) is handed
\* to the notification handler as an Error, and the dispatcher goes back to
\* receiving; the loop is left only on a Stop message.
C21_DispatchErrors ==
    [][/\ (ProcessJob \/ ProcessCommand) =>
            /\ dispatcher' = "recv"
            /\ rcvd \in processed'
       /\ ProcessJob =>
            LET id == channel[rcvd].id
                r1 == Schedule(store, id)
                r2 == SetStatus(r1.store, id, "Ready")
            IN /\ r1.err # "Ok" => Notif(r1.err, id) \in notifs'
               /\ r2.err # "Ok" => Notif(r2.err, id) \in notifs'
       /\ ProcessCommand =>
            LET msg == channel[rcvd]
            IN /\ (msg.type = "SetSteps" /\ SetSteps(store, msg.id, msg.n).err # "Ok") =>
                     Notif(SetSteps(store, msg.id, msg.n).err, msg.id) \in notifs'
               /\ (msg.type = "SetStep" /\ SetStep(store, msg.id, msg.n).err # "Ok") =>
                     Notif(SetStep(store, msg.id, msg.n).err, msg.id) \in notifs'
       /\ (dispatcher # "exited" /\ dispatcher' = "exited") =>
            channel[rcvd'] = StopMsg]_vars

\* A Job message with a known id has failed with AlreadyExists and
\* UnknownJob, and the dispatcher has since processed a SetStep that failed
\* with UnknownJob and is receiving again.
C21_Witness ==
    /\ dispatcher = "recv"
    /\ rcvd \in processed
    /\ channel[rcvd].type = "SetStep"
    /\ channel[rcvd].id \notin DOMAIN store
    /\ Notif("AlreadyExists", channel[rcvd].id) \in notifs
    /\ Notif("UnknownJob", channel[rcvd].id) \in notifs
    /\ \E i \in processed : i < rcvd /\ channel[i] = JobMsg(channel[rcvd].id)
                             /\ \E k \in processed : k < i /\ channel[k] = channel[i]

\* Indices of the progression commands sent for job j.
CommandsFor(j) ==
    {i \in DOMAIN channel : channel[i].type \in {"SetSteps", "SetStep"}
                            /\ channel[i].id = j}

\* The messages the dispatcher has dealt with: all it has received but the
\* one in hand and the Stop it left on.
Handled ==
    IF dispatcher \in {"busy", "exited"} THEN 1..(rcvd - 1) ELSE 1..rcvd

\* C22: the dispatcher processes the messages in their order of arrival,
\* so that once the three commands SetSteps(2), SetStep(1), SetStep(2) of
\* one run of a SetFlag routine have been processed, no other producer
\* having written for the job, the progression of its record is (2, 2).
C22_ArrivalOrder ==
    /\ processed = Handled
    /\ \A j \in DOMAIN store :
          (Cardinality(CommandsFor(j)) = 3 /\ CommandsFor(j) \subseteq processed) =>
              /\ store[j].step = 2
              /\ store[j].steps = 2

\* The three commands of a SetFlag routine have been processed and the
\* record of its job holds the progression (2, 2).
C22_Witness ==
    \E j \in DOMAIN store :
        /\ RoutineOf(j) = "SetFlag"
        /\ Cardinality(CommandsFor(j)) = 3
        /\ CommandsFor(j) \subseteq processed
        /\ store[j].step = 2
        /\ store[j].steps = 2

\* C23: a job is admitted to the store before the dispatcher processes a
\* SetStep or SetSteps sent by its own routine: the Job message was dealt
\* with before the command was sent, and a command fails with UnknownJob
\* only for an id whose record has been removed, by remove_job or by the
\* sweeper.
C23_AdmittedBeforeCommands ==
    /\ \A i \in DOMAIN channel :
          channel[i].type \in {"SetSteps", "SetStep"} =>
              /\ \E k \in processed : k < i /\ channel[k] = JobMsg(channel[i].id)
              /\ channel[i].id \in (DOMAIN store) \cup gone
    /\ \A j \in Jobs : Notif("UnknownJob", j) \in notifs => j \in gone

\* A SetStep of a routine has been processed after the record of its job
\* had gone, and has failed with UnknownJob.
C23_Witness ==
    /\ dispatcher = "recv"
    /\ rcvd \in processed
    /\ channel[rcvd].type = "SetStep"
    /\ channel[rcvd].id \in gone
    /\ Notif("UnknownJob", channel[rcvd].id) \in notifs
    /\ Notif("AlreadyExists", channel[rcvd].id) \notin notifs

\* C24: a worker calls the routine of a job only after it has set the
\* record to Running: while a routine is executing or suspended its record,
\* if still there, is Running, a task whose set_status(Running) was refused
\* not calling the routine.
C24_RunningBeforeRoutine ==
    \A t \in DOMAIN tasks :
        (tasks[t].st = "running" /\ tasks[t].id \in DOMAIN store) =>
            store[tasks[t].id].status = "Running"

\* C25: admission and the transition to Ready are made in one critical
\* section of the store lock: whenever the lock is free, so that a query
\* can read the store, no record is Pending, and job_status never returns
\* Pending.
C25_NoPendingObserved ==
    /\ lock = 0 => \A j \in DOMAIN store : store[j].status # "Pending"
    /\ ret.op = "job_status" => ret.val # "Pending"
    /\ \A j \in Jobs : hist[j] # <<>> =>
          /\ hist[j][1] = "Pending"
          /\ Len(hist[j]) >= 2
          /\ hist[j][2] = "Ready"

\* job_status has returned Ready for a job whose record went through
\* Pending.
C25_Witness ==
    /\ ret.op = "job_status"
    /\ ret.err = "Ok"
    /\ ret.val = "Ready"
    /\ hist[ret.id] = <<"Pending", "Ready">>

C27_StopThenJoin ==
    /\ (state = "Stopping") ~> (dispatcher = "exited")
    /\ []((ret.op = "join" /\ state = "Stopping") => ret.err = "Ok")

\* join has returned Ok after the dispatcher had processed a Job message
\* and a progression command queued before the Stop marker.
C27_Witness ==
    /\ ret.op = "join"
    /\ ret.err = "Ok"
    /\ channel[rcvd] = StopMsg
    /\ \E i \in processed : channel[i].type = "Job"
    /\ \E i \in processed : channel[i].type = "SetStep"

\* C28: once a record has been removed, by remove_job or by the sweeper,
\* nothing creates it again: a Job message with its id, a task that starts
\* for it and a SetStep or SetSteps for it leave the store without a record
\* of the id, the worker's and the command's UnknownJob going to the
\* notification handler and the routine not being called.
C28_RemovedStaysRemoved ==
    [][/\ \A j \in gone : j \in gone' /\ j \notin DOMAIN store'
       /\ \A t \in DOMAIN tasks :
            (WorkerStart(t) /\ tasks[t].id \in gone) =>
                /\ Notif("UnknownJob", tasks[t].id) \in notifs'
                /\ store' = store
                /\ invoked' = invoked
                /\ tasks'[t].st = "done"
       /\ (ProcessCommand /\ channel[rcvd].type \in {"SetSteps", "SetStep"}
             /\ channel[rcvd].id \in gone) =>
                /\ Notif("UnknownJob", channel[rcvd].id) \in notifs'
                /\ store' = store
       /\ (ProcessJob /\ channel[rcvd].id \in gone) => store' = store]_vars

\* The record of a job was removed while Ready; its task has since started,
\* has failed with UnknownJob and has ended without calling the routine.
C28_Witness ==
    \E t \in DOMAIN tasks :
        /\ tasks[t].st = "done"
        /\ tasks[t].id \in gone
        /\ tasks[t].id \notin DOMAIN store
        /\ invoked[tasks[t].id] = 0
        /\ Notif("UnknownJob", tasks[t].id) \in notifs

=============================================================================
